---- MODULE Spec2Model ----
(***************************************************************************)
(* CosineAnnealingWarmupRestarts (bkh_pytorch_utils/py/utils.py): a cyclic *)
(* learning-rate schedule with linear warmup, cosine decay and restarts.   *)
(*                                                                         *)
(* Numbers.  Python floats are modelled by exact rationals <<n, d>> in     *)
(* lowest terms with d > 0.  Every quantity the schedule's bookkeeping     *)
(* computes within the bounds below (cycle lengths, positions, powers of   *)
(* cycle_mult) is a dyadic rational that a float holds exactly.  Rates are *)
(* counted in units of 0.001 (max_lr = 0.1 is 100, min_lr = 0.001 is 1).   *)
(* math.cos is modelled by CosPi, a rational approximation that is exact   *)
(* at the multiples of pi/2 and of pi/3 and stays within [-1, 1].          *)
(***************************************************************************)
EXTENDS Integers, Sequences, FiniteSets, TLC

\* ------------------------------------------------------------------ bounds
\* Largest first_cycle_steps of the enumerated configurations.
MaxFirst == 2
\* Largest absolute step (epoch) the caller reaches or passes to step(epoch).
MaxEpoch == 10
\* Implicit advances stop once this many restarts have been counted.
MaxCycle == 10
\* Number of optimizer parameter groups.
NumGroups == 2

Groups == 1..NumGroups

\* ------------------------------------------------------ rational arithmetic
Abs(n) == IF n < 0 THEN -n ELSE n

RECURSIVE Gcd(_, _)
Gcd(a, b) == IF b = 0 THEN a ELSE Gcd(b, a % b)

\* n / d as a float's value: lowest terms, positive denominator (d # 0).
Rat(n, d) ==
    LET g == Gcd(Abs(n), Abs(d))
        s == IF d < 0 THEN -1 ELSE 1
    IN  << (s * n) \div g, (s * d) \div g >>

Num(n) == << n, 1 >>
RAdd(x, y) == Rat(x[1] * y[2] + y[1] * x[2], x[2] * y[2])
RSub(x, y) == Rat(x[1] * y[2] - y[1] * x[2], x[2] * y[2])
RMul(x, y) == Rat(x[1] * y[1], x[2] * y[2])
RDiv(x, y) == Rat(x[1] * y[2], x[2] * y[1])
RLt(x, y) == x[1] * y[2] < y[1] * x[2]
RLe(x, y) == x[1] * y[2] <= y[1] * x[2]
RIsZero(x) == x[1] = 0
RAbs(x) == << Abs(x[1]), x[2] >>

\* Python's int(x) on a float: truncation toward zero.
Trunc(x) == IF x[1] >= 0 THEN x[1] \div x[2] ELSE -((-x[1]) \div x[2])

\* x ** n for an integer n >= 0.
RECURSIVE RPow(_, _)
RPow(x, n) == IF n = 0 THEN Num(1) ELSE RMul(x, RPow(x, n - 1))

\* int(math.log(arg, base)) for arg > 0 and base > 0, base # 1, in the two
\* cases the explicit branch produces: base > 1 with arg >= 1, and
\* 0 < base < 1 with arg <= 1.  The quotient log(arg)/log(base) is then
\* non-negative and its truncation is the largest n with base**n on the
\* same side of arg.
RECURSIVE LogLoop(_, _, _, _)
LogLoop(arg, base, n, pw) ==
    LET nxt == RMul(pw, base)
        more == IF RLt(Num(1), base) THEN RLe(nxt, arg) ELSE RLe(arg, nxt)
    IN  IF more THEN LogLoop(arg, base, n + 1, nxt) ELSE n

IntLog(arg, base) == LogLoop(arg, base, 0, Num(1))

\* math.cos(math.pi * x).  Reduced by evenness and period 2 to [0, 1], then
\* by cos(pi*(1 - y)) = -cos(pi*y) to [0, 1/2], where Bhaskara's rational
\* form (1 - 4y^2)/(1 + y^2) is used: exact at 0, 1/3, 1/2.
Bhaskara(y) ==
    LET y2 == RMul(y, y)
    IN  RDiv(RSub(Num(1), RMul(Num(4), y2)), RAdd(Num(1), y2))

CosPi(x) ==
    LET a == RAbs(x)
        k == a[1] \div (2 * a[2])
        r == RSub(a, Num(2 * k))
        y == IF RLt(Num(1), r) THEN RSub(Num(2), r) ELSE r
    IN  IF RLe(y, << 1, 2 >>)
        THEN Bhaskara(y)
        ELSE RSub(Num(0), Bhaskara(RSub(Num(1), y)))

\* -------------------------------------------------------------- the object
VARIABLES
    first_cycle_steps,  \* int, fixed at construction
    cycle_mult,         \* float
    base_max_lr,        \* float
    max_lr,             \* float: max learning rate in the current cycle
    min_lr,             \* float
    warmup_steps,       \* int
    gamma,              \* float
    cur_cycle_steps,    \* int or float
    cycle,              \* int
    step_in_cycle,      \* int or float
    last_epoch,         \* int
    base_lrs,           \* list of float, one per parameter group
    lr,                 \* optimizer.param_groups[g]['lr']
    raised,             \* exception the last call raised, or "none"
    last_call,          \* history: "init", "implicit" or "explicit"
    arg,                \* history: epoch passed to the last explicit call
    implicit_run        \* history: the number of calls so far if every one
                        \* was step(), and -1 once step(epoch) was called

fields == << first_cycle_steps, cycle_mult, base_max_lr, max_lr, min_lr,
             warmup_steps, gamma, cur_cycle_steps, cycle, step_in_cycle,
             last_epoch, base_lrs, lr, raised >>
vars == << fields, last_call, arg, implicit_run >>

\* The scheduler object and its optimizer's rates, as one record.
Self ==
    [ first_cycle_steps |-> first_cycle_steps, cycle_mult |-> cycle_mult,
      base_max_lr |-> base_max_lr, max_lr |-> max_lr, min_lr |-> min_lr,
      warmup_steps |-> warmup_steps, gamma |-> gamma,
      cur_cycle_steps |-> cur_cycle_steps, cycle |-> cycle,
      step_in_cycle |-> step_in_cycle, last_epoch |-> last_epoch,
      base_lrs |-> base_lrs, lr |-> lr, raised |-> raised ]

\* ------------------------------------------------------------------ get_lr
\* Which return statement of get_lr is taken.
Branch(s) ==
    IF s.cycle > 0 /\ RIsZero(s.cycle_mult) THEN "guard"
    ELSE IF s.step_in_cycle = Num(-1) THEN "unstarted"
    ELSE IF RLt(s.step_in_cycle, Num(s.warmup_steps)) THEN "warmup"
    ELSE "cosine"

\* get_lr raises ZeroDivisionError: a zero divisor in the branch taken.
get_lr_raises(s) ==
    \/ Branch(s) = "warmup" /\ s.warmup_steps = 0
    \/ Branch(s) = "cosine" /\ RIsZero(RSub(s.cur_cycle_steps, Num(s.warmup_steps)))

\* WarmupRate with the ramp counted from one instead of zero.
WarmupRate_off_by_one(s, base_lr) ==
    RAdd(RDiv(RMul(RSub(s.max_lr, base_lr), RAdd(s.step_in_cycle, Num(1))),
              Num(s.warmup_steps)),
         base_lr)

WarmupRate(s, base_lr) ==
    RAdd(RDiv(RMul(RSub(s.max_lr, base_lr), s.step_in_cycle), Num(s.warmup_steps)),
         base_lr)

\* CosineRate without the halving of (1 + cos).
CosineRate_not_halved(s, base_lr) ==
    LET x == RDiv(RSub(s.step_in_cycle, Num(s.warmup_steps)),
                  RSub(s.cur_cycle_steps, Num(s.warmup_steps)))
    IN  RAdd(base_lr, RMul(RSub(s.max_lr, base_lr), RAdd(Num(1), CosPi(x))))

CosineRate(s, base_lr) ==
    LET x == RDiv(RSub(s.step_in_cycle, Num(s.warmup_steps)),
                  RSub(s.cur_cycle_steps, Num(s.warmup_steps)))
    IN  RAdd(base_lr,
             RDiv(RMul(RSub(s.max_lr, base_lr), RAdd(Num(1), CosPi(x))), Num(2)))

get_lr(s) ==
    CASE Branch(s) = "guard" -> s.base_lrs
      [] Branch(s) = "unstarted" -> s.base_lrs
      [] Branch(s) = "warmup" -> [g \in Groups |-> WarmupRate(s, s.base_lrs[g])]
      [] Branch(s) = "cosine" -> [g \in Groups |-> CosineRate(s, s.base_lrs[g])]

\* -------------------------------------------------------------------- step
\* Lines 92-95: the tail both modes share.  max_lr and last_epoch are
\* assigned before get_lr is evaluated, so they keep their new values when
\* get_lr raises; the parameter groups then keep their old rates.
step_tail(s, epoch) ==
    LET u == [s EXCEPT !.max_lr = RMul(s.base_max_lr, RPow(s.gamma, s.cycle)),
                       !.last_epoch = epoch]
    IN  IF get_lr_raises(u)
        THEN [u EXCEPT !.raised = "ZeroDivisionError"]
        ELSE [u EXCEPT !.lr = get_lr(u), !.raised = "none"]

\* Restart whose new cycle length leaves out the warmup steps.
Restart_warmup_dropped(s) ==
    [s EXCEPT !.cycle = s.cycle + 1,
              !.step_in_cycle = RSub(s.step_in_cycle, s.cur_cycle_steps),
              !.cur_cycle_steps =
                  Num(Trunc(RMul(RSub(s.cur_cycle_steps, Num(s.warmup_steps)),
                                 s.cycle_mult)))]

\* Restart without the count of the completed cycle.
Restart_cycle_not_counted(s) ==
    [s EXCEPT !.step_in_cycle = RSub(s.step_in_cycle, s.cur_cycle_steps),
              !.cur_cycle_steps =
                  Num(Trunc(RMul(RSub(s.cur_cycle_steps, Num(s.warmup_steps)),
                                 s.cycle_mult)) + s.warmup_steps)]

\* Lines 73-77: the restart of an implicit advance.
Restart(s) ==
    [s EXCEPT !.cycle = s.cycle + 1,
              !.step_in_cycle = RSub(s.step_in_cycle, s.cur_cycle_steps),
              !.cur_cycle_steps =
                  Num(Trunc(RMul(RSub(s.cur_cycle_steps, Num(s.warmup_steps)),
                                 s.cycle_mult)) + s.warmup_steps)]

\* step() that leaves the epoch where it was.
step_implicit_same_epoch(s) ==
    LET a == [s EXCEPT !.step_in_cycle = RAdd(s.step_in_cycle, Num(1))]
        b == IF RLe(a.cur_cycle_steps, a.step_in_cycle) THEN Restart(a) ELSE a
    IN  step_tail(b, s.last_epoch)

\* step() with epoch = None.
step_implicit(s) ==
    LET a == [s EXCEPT !.step_in_cycle = RAdd(s.step_in_cycle, Num(1))]
        b == IF RLe(a.cur_cycle_steps, a.step_in_cycle) THEN Restart(a) ELSE a
    IN  step_tail(b, s.last_epoch + 1)

\* The argument of math.log on line 84.
LogArg(s, epoch) ==
    RAdd(RMul(Rat(epoch, s.first_cycle_steps), RSub(s.cycle_mult, Num(1))), Num(1))

\* math.log on line 84 raises ValueError ("math domain error").
log_raises(s, epoch) ==
    \/ RLe(s.cycle_mult, Num(0))
    \/ RLe(LogArg(s, epoch), Num(0))

\* Lines 84-87: placement by the closed form of the geometric series.
Geometric(s, epoch) ==
    LET n == IntLog(LogArg(s, epoch), s.cycle_mult)
        pw == RPow(s.cycle_mult, n)
        done == Trunc(RDiv(RMul(Num(s.first_cycle_steps), RSub(pw, Num(1))),
                           RSub(s.cycle_mult, Num(1))))
    IN  [s EXCEPT !.cycle = n,
                  !.step_in_cycle = Num(epoch - done),
                  !.cur_cycle_steps = RMul(Num(s.first_cycle_steps), pw)]

\* Lines 81-82: placement by modular arithmetic.
Modular(s, epoch) ==
    [s EXCEPT !.step_in_cycle = Num(epoch % s.first_cycle_steps),
              !.cycle = epoch \div s.first_cycle_steps]

\* Lines 89-90: placement inside the first cycle.
FirstCycle(s, epoch) ==
    [s EXCEPT !.cur_cycle_steps = Num(s.first_cycle_steps),
              !.step_in_cycle = Num(epoch)]

\* step(epoch) with an integer epoch >= 0.
step_explicit(s, epoch) ==
    IF epoch >= s.first_cycle_steps
    THEN IF s.cycle_mult = Num(1)
         THEN step_tail(Modular(s, epoch), epoch)
         ELSE IF log_raises(s, epoch)
              THEN [s EXCEPT !.raised = "ValueError"]
              ELSE step_tail(Geometric(s, epoch), epoch)
    ELSE step_tail(FirstCycle(s, epoch), epoch)

\* ---------------------------------------------------------------- __init__
\* init_lr that resets base_lrs but not the parameter groups' rates.
init_lr_groups_untouched(s) ==
    [s EXCEPT !.base_lrs = [g \in Groups |-> s.min_lr]]

\* Lines 51-55.
init_lr(s) ==
    [s EXCEPT !.base_lrs = [g \in Groups |-> s.min_lr],
              !.lr = [g \in Groups |-> s.min_lr]]

\* Lines 34-44: the fields as assigned before the base class is initialised
\* (last_epoch = -1, the default).  olr: the optimizer's rates on entry.
Fields(first, mult, maxlr, minlr, warmup, gam, olr) ==
    [ first_cycle_steps |-> first, cycle_mult |-> mult,
      base_max_lr |-> Num(maxlr), max_lr |-> Num(maxlr), min_lr |-> Num(minlr),
      warmup_steps |-> warmup, gamma |-> gam,
      cur_cycle_steps |-> Num(first), cycle |-> 0,
      step_in_cycle |-> Num(-1), last_epoch |-> -1,
      base_lrs |-> olr, lr |-> olr, raised |-> "none" ]

\* Line 46: torch's _LRScheduler.__init__ records base_lrs (the optimizer's
\* rates) and last_epoch, then performs its initial self.step(), which
\* dispatches to the step above.
BaseInit(s) == step_implicit(s)

\* __init__: the fields, the base class's initialisation, then init_lr.
Construct(first, mult, maxlr, minlr, warmup, gam, olr) ==
    init_lr(BaseInit(Fields(first, mult, maxlr, minlr, warmup, gam, olr)))

\* ------------------------------------------------------------------ inputs
Mults == { << 0, 1 >>, << 1, 2 >>, << 1, 1 >>, << 3, 2 >>, << 2, 1 >> }
Gammas == { << 1, 1 >>, << 1, 2 >> }
MinLrs == { 1 }
MaxLrs == { 100 }
OptimizerLrs == { 500 }

\* A configuration the constructor accepts (line 32).
Accepted(first, warmup) == first > 0 /\ warmup >= 0 /\ warmup < first

Grid ==
    { c \in [ first : 1..MaxFirst, warmup : 0..(MaxFirst - 1), mult : Mults,
              gam : Gammas, minlr : MinLrs, maxlr : MaxLrs ] :
        Accepted(c.first, c.warmup) }

\* first_cycle_steps=10, warmup_steps=2, max_lr=0.1, min_lr=0.0,
\* cycle_mult=1.0, gamma=1.0.
Scenario ==
    [ first |-> 10, warmup |-> 2, mult |-> << 1, 1 >>, gam |-> << 1, 1 >>,
      minlr |-> 0, maxlr |-> 100 ]

Configs == Grid \cup { Scenario }

New(c, olr) == Construct(c.first, c.mult, c.maxlr, c.minlr, c.warmup, c.gam, olr)

\* The configuration of the object, read back from its fixed fields.
Config ==
    [ first |-> first_cycle_steps, warmup |-> warmup_steps, mult |-> cycle_mult,
      gam |-> gamma, minlr |-> min_lr[1], maxlr |-> base_max_lr[1] ]

\* A freshly constructed schedule of the same configuration.
Fresh == New(Config, [g \in Groups |-> Num(CHOOSE v \in OptimizerLrs : TRUE)])

\* ----------------------------------------------------------------- actions
Becomes(s) ==
    /\ first_cycle_steps' = s.first_cycle_steps
    /\ cycle_mult' = s.cycle_mult
    /\ base_max_lr' = s.base_max_lr
    /\ max_lr' = s.max_lr
    /\ min_lr' = s.min_lr
    /\ warmup_steps' = s.warmup_steps
    /\ gamma' = s.gamma
    /\ cur_cycle_steps' = s.cur_cycle_steps
    /\ cycle' = s.cycle
    /\ step_in_cycle' = s.step_in_cycle
    /\ last_epoch' = s.last_epoch
    /\ base_lrs' = s.base_lrs
    /\ lr' = s.lr
    /\ raised' = s.raised

Init ==
    \E c \in Configs, olr \in [Groups -> OptimizerLrs] :
        LET s == New(c, [g \in Groups |-> Num(olr[g])])
        IN  /\ first_cycle_steps = s.first_cycle_steps
            /\ cycle_mult = s.cycle_mult
            /\ base_max_lr = s.base_max_lr
            /\ max_lr = s.max_lr
            /\ min_lr = s.min_lr
            /\ warmup_steps = s.warmup_steps
            /\ gamma = s.gamma
            /\ cur_cycle_steps = s.cur_cycle_steps
            /\ cycle = s.cycle
            /\ step_in_cycle = s.step_in_cycle
            /\ last_epoch = s.last_epoch
            /\ base_lrs = s.base_lrs
            /\ lr = s.lr
            /\ raised = s.raised
            /\ last_call = "init"
            /\ arg = 0
            /\ implicit_run = 0

\* The caller invokes scheduler.step().
StepImplicit ==
    /\ last_epoch < MaxEpoch
    /\ cycle < MaxCycle
    /\ \E s \in { step_implicit(Self) } : Becomes(s)
    /\ last_call' = "implicit"
    /\ arg' = 0
    /\ implicit_run' = IF implicit_run = -1 THEN -1 ELSE implicit_run + 1

\* The caller invokes scheduler.step(epoch).
StepExplicit ==
    \E epoch \in 0..MaxEpoch :
        /\ \E s \in { step_explicit(Self, epoch) } : Becomes(s)
        /\ last_call' = "explicit"
        /\ arg' = epoch
        /\ implicit_run' = -1

Next == StepImplicit \/ StepExplicit

Spec == Init /\ [][Next]_vars

\* ------------------------------------------------------------------ claims
Floor == [g \in Groups |-> min_lr]
IsFresh == last_call = "init" /\ implicit_run = 0
Half == << 1, 2 >>
OneAndHalf == << 3, 2 >>

\* C1 (as claimed): for cycle_mult in {1.0, 2.0, 1.5}, a schedule advanced
\* only by step() up to absolute step t has the cycle, the step_in_cycle and
\* the resulting rates (get_lr) of a fresh schedule of the same
\* configuration placed there by one step(t).
C1_ExplicitMatchesImplicit ==
    (implicit_run >= 0 /\ cycle_mult \in { Num(1), Num(2), OneAndHalf })
        => LET e == step_explicit(Fresh, last_epoch)
           IN  /\ e.cycle = cycle
               /\ e.step_in_cycle = step_in_cycle
               /\ e.raised = "none" /\ raised = "none"
               /\ get_lr(e) = get_lr(Self)

\* C2: after exactly cur_cycle_steps-of-the-fresh-schedule calls of step()
\* on a freshly constructed schedule, step_in_cycle is 0, cycle is one more
\* than it was and max_lr is its fresh value times gamma.
C2_FullCycleReturn ==
    (implicit_run >= 0 /\ Num(implicit_run) = Fresh.cur_cycle_steps)
        => /\ step_in_cycle = Num(0)
           /\ cycle = Fresh.cycle + 1
           /\ max_lr = RMul(Fresh.max_lr, gamma)

C2_Witness ==
    /\ implicit_run = first_cycle_steps
    /\ first_cycle_steps = 2
    /\ gamma = Half
    /\ cycle = 1
    /\ max_lr = Num(50)

\* C3 (as claimed): right after construction get_lr returns min_lr for every
\* parameter group, whatever the accepted configuration.
C3_QueryIsFloorAfterConstruction ==
    IsFresh => get_lr(Self) = Floor

\* C3 (amended): right after construction every parameter group's applied
\* rate is min_lr; get_lr returns min_lr for every group when
\* warmup_steps > 0 and base_max_lr for every group when warmup_steps = 0,
\* because the base class's initial step has put step_in_cycle at 0.
C3_AfterConstruction ==
    IsFresh
        => /\ lr = Floor
           /\ step_in_cycle = Num(0)
           /\ ~get_lr_raises(Self)
           /\ get_lr(Self) = IF warmup_steps = 0
                             THEN [g \in Groups |-> base_max_lr]
                             ELSE Floor

C3_Witness ==
    /\ IsFresh
    /\ warmup_steps = 0
    /\ lr = Floor
    /\ get_lr(Self) # Floor

\* The rates of the concrete scenario, in units of 0.001.
ScenarioRate(t) ==
    CASE t = 0 -> Num(0) [] t = 1 -> Num(50) [] t = 2 -> Num(100)
      [] t = 6 -> Num(50) [] t = 10 -> Num(0)

ScenarioSteps == { 0, 1, 2, 6, 10 }

\* C4: with first_cycle_steps=10, warmup_steps=2, max_lr=0.1, min_lr=0.0,
\* cycle_mult=1.0, gamma=1.0, the rate applied to every parameter group at
\* absolute step 0 is 0.0, at 1 is 0.05, at 2 is 0.1, at 6 is 0.05 and at 10
\* is 0.0 with cycle = 1; both when the step is reached by step() calls and
\* when a fresh schedule is placed there by step(t).
C4_Scenario ==
    Config = Scenario
        => /\ (implicit_run >= 0 /\ last_epoch \in ScenarioSteps)
                => /\ raised = "none"
                   /\ \A g \in Groups : lr[g] = ScenarioRate(last_epoch)
                   /\ last_epoch = 10 => cycle = 1
           /\ \A t \in ScenarioSteps :
                LET e == step_explicit(Fresh, t)
                IN  /\ e.raised = "none"
                    /\ \A g \in Groups : e.lr[g] = ScenarioRate(t)
                    /\ t = 10 => e.cycle = 1

C4_Witness ==
    /\ Config = Scenario
    /\ implicit_run = 10
    /\ last_epoch = 10
    /\ cycle = 1
    /\ lr = [g \in Groups |-> Num(0)]

\* C5 (as claimed): last_epoch never decreases, whatever the advance.
C5_NeverDecreases == [][last_epoch' >= last_epoch]_vars

\* C5 (amended): step() raises last_epoch by exactly one, so it never
\* decreases under implicit advances; step(epoch) sets it to epoch, lower
\* than before whenever epoch is below it, and leaves it unchanged when the
\* placement raises ValueError.
C5_EpochFollowsCall ==
    [][ /\ last_call' = "implicit" => last_epoch' = last_epoch + 1
        /\ last_call' = "explicit"
             => last_epoch' = IF raised' = "ValueError" THEN last_epoch ELSE arg'
      ]_vars

C5_Witness ==
    /\ last_call = "implicit"
    /\ implicit_run = -1
    /\ last_epoch = 3
Started == step_in_cycle # Num(-1)
RMin(x, y) == IF RLe(x, y) THEN x ELSE y
RMax(x, y) == IF RLe(x, y) THEN y ELSE x

\* C6 (as claimed): for a positive cycle_mult, once the schedule has
\* started, 0 <= step_in_cycle < cur_cycle_steps in every reachable state.
C6_PositionInCycle ==
    (RLt(Num(0), cycle_mult) /\ Started)
        => /\ RLe(Num(0), step_in_cycle)
           /\ RLt(step_in_cycle, cur_cycle_steps)

\* C7 (as claimed): for a positive cycle_mult, warmup_steps < cur_cycle_steps
\* in every reachable state, so the cosine branch never divides by zero.
C7_DecaySpanPositive ==
    RLt(Num(0), cycle_mult)
        => /\ RLt(Num(warmup_steps), cur_cycle_steps)
           /\ raised # "ZeroDivisionError"

\* C7 (amended): for cycle_mult >= 1, warmup_steps < cur_cycle_steps in
\* every reachable state, get_lr's divisor is never zero and no advance
\* raises ZeroDivisionError.
C7_DecaySpanPositiveFromOne ==
    RLe(Num(1), cycle_mult)
        => /\ RLt(Num(warmup_steps), cur_cycle_steps)
           /\ ~get_lr_raises(Self)
           /\ raised # "ZeroDivisionError"

C7_Witness ==
    /\ cycle_mult = OneAndHalf
    /\ warmup_steps = 1
    /\ last_call = "implicit"
    /\ cycle = 2
    /\ Branch(Self) = "cosine"
    /\ RLt(Num(first_cycle_steps), cur_cycle_steps)

\* C8 (as claimed): with cycle_mult = 0 no advance raises, and get_lr
\* returns min_lr for every parameter group in every state with cycle > 0.
C8_ZeroMultiplier ==
    RIsZero(cycle_mult)
        => /\ raised = "none"
           /\ cycle > 0 => (~get_lr_raises(Self) /\ get_lr(Self) = Floor)

\* C9 (as claimed): step(t) leaves a schedule of any history with the
\* cycle, step_in_cycle, cur_cycle_steps, max_lr and applied rates it leaves
\* a fresh schedule of the same configuration with (calls that raise set
\* aside).
C9_PlacementIgnoresHistory ==
    \A t \in 0..MaxEpoch :
        LET a == step_explicit(Self, t)
            b == step_explicit(Fresh, t)
        IN  (a.raised = "none" /\ b.raised = "none")
                => /\ a.cycle = b.cycle
                   /\ a.step_in_cycle = b.step_in_cycle
                   /\ a.cur_cycle_steps = b.cur_cycle_steps
                   /\ a.max_lr = b.max_lr
                   /\ a.lr = b.lr

\* The hypotheses of C10, and that get_lr returns.
C10_Case ==
    /\ RLe(min_lr, base_max_lr)
    /\ RLt(Num(0), gamma) /\ RLe(gamma, Num(1))
    /\ RLe(Num(1), cycle_mult)
    /\ ~get_lr_raises(Self)

\* C10 (as claimed): with min_lr <= base_max_lr, gamma in (0, 1] and
\* cycle_mult >= 1, get_lr returns for every parameter group a rate with
\* min_lr <= rate <= max_lr.
C10_RateWithinFloorAndPeak ==
    C10_Case
        => \A g \in Groups :
              /\ RLe(min_lr, get_lr(Self)[g])
              /\ RLe(get_lr(Self)[g], max_lr)

\* C10 (amended): under the same hypotheses the rate lies between min_lr and
\* max_lr in whichever order they stand: min_lr <= rate <= max_lr as long as
\* the decayed peak max_lr is still at least min_lr, and
\* max_lr <= rate <= min_lr once gamma has taken it below.
C10_RateBetweenFloorAndPeak ==
    C10_Case
        => \A g \in Groups :
              /\ RLe(RMin(min_lr, max_lr), get_lr(Self)[g])
              /\ RLe(get_lr(Self)[g], RMax(min_lr, max_lr))

C10_Witness ==
    /\ C10_Case
    /\ RLt(max_lr, min_lr)
    /\ Branch(Self) = "cosine"
    /\ RLt(Num(0), step_in_cycle)
    /\ RLt(max_lr, get_lr(Self)[1])
    /\ RLt(get_lr(Self)[1], min_lr)
====
